---- MODULE Spec2Model ----
(***************************************************************************)
(* Model of the VSON WP6810 monitor (src/monitor.py): the supervisor loop  *)
(* monitor_device, one connection attempt monitor_device_connection, the   *)
(* handshake initialize_device, the router notification_handler with its   *)
(* decoders, and the MQTT connection callbacks that latch the sink's fatal *)
(* flag.                                                                   *)
(*                                                                         *)
(* The program is one asyncio task.  pc is the task's position; the        *)
(* positions "connect", "hs_wait", "listen_sleep", "disconnect" and        *)
(* "sup_delay" are awaits, where the event loop may run a notification     *)
(* callback or deliver a cancellation.  The other positions are inside     *)
(* synchronous code: there only the clock and the MQTT client's thread     *)
(* can act.                                                                *)
(***************************************************************************)
EXTENDS Integers, Sequences, FiniteSets, TLC

\* ---------------------------------------------------------------- bounds
MaxSessions == 2
MaxTime == 3
MaxCancels == 1
MaxFailCount == 6
ResponseTimeout == 1
MaxDataLen == 22
MaxMetaLen == 9

\* ------------------------------------------------------ program constants
PACKET_SIZE_DATA == 20
PACKET_SIZE_META == 8
PACKET_SIZE_META_SHORT == 2
PACKET_SIZE_META_LONG == 8
META_FLAG_TIME_CONFIRMATION == 1
META_FLAG_SHORT_RESPONSE == 2
PARTICLE_MULTIPLIER_BASE == 256
PARTICLE_MULTIPLIER_LSB == 6250
MqttMaxConnectionAttempts == 5
InitialBattery == 0

VARIABLES
    pc,                 \* position of the monitoring task
    sessions,           \* number of sessions created so far
    sessState,          \* lifecycle state of the current session
    hsIssued,           \* handshake requests issued in this session, in order
    hsConfirmed,        \* handshake requests whose await has returned
    inflight,           \* handshake requests issued and not yet answered
    hsFailed,           \* handshake requests of this session that raised
    exc,                \* exception unwinding through the async-with block
    outcome,            \* what monitor_device received from the last session
    disposition,        \* why the current session ended
    prevDisposition,    \* why the session before it ended
    handleOpen,         \* the session's transport link is up
    discAttempted,      \* __aexit__ has called disconnect in this session
    discResult,         \* how that disconnect call ended
    cancels,            \* cancellations delivered so far
    cancelledIn,        \* session state in which the last one was delivered
    mqtt_connection_failed_count,
    mqtt_fatal_error,
    fatalObserved,      \* a check of mqtt_fatal_error has seen it set
    include_history,
    latest_battery,     \* sensor_state.latest_battery
    last_data_time,     \* sensor_state.last_data_time, -1 for None
    now,                \* time.time()
    sessStatus,         \* byte 0 of the last STATUS frame of this session, -1 if none
    lastIn,             \* the frame the router handled last
    lastOut,            \* what the router did with it
    callIn,             \* a function of the program and the argument it is called with
    callOut,            \* whether it has been called, and what it returned
    discovered_devices  \* discover.py: MAC address -> device info

vars == <<pc, sessions, sessState, hsIssued, hsConfirmed, inflight, hsFailed, exc,
          outcome, disposition, prevDisposition, handleOpen, discAttempted, discResult, cancels, cancelledIn,
          mqtt_connection_failed_count, mqtt_fatal_error, fatalObserved,
          include_history, latest_battery, last_data_time, now, sessStatus,
          lastIn, lastOut, callIn, callOut, discovered_devices>>

supVars == <<pc, sessions, sessState, outcome, disposition, prevDisposition>>
hsVars == <<hsIssued, hsConfirmed, inflight, hsFailed>>
unwindVars == <<exc, handleOpen, discAttempted, discResult>>
cancelVars == <<cancels, cancelledIn>>
mqttVars == <<mqtt_connection_failed_count, mqtt_fatal_error>>
routerVars == <<latest_battery, sessStatus, lastIn, lastOut>>

\* What no step of the monitoring task writes: config.include_history (set
\* once by main), the call being evaluated, and the scanner's dictionary
\* (discover.py is a separate program).
staticVars == <<include_history, callIn, callOut, discovered_devices>>

\* ------------------------------------------------------------ exceptions
\* "Timeout" is asyncio.TimeoutError, "Bleak" is BleakError, "OS" is OSError,
\* RuntimeError or ValueError, "Other" is any exception monitor_device has no
\* handler for, "Cancelled" is asyncio.CancelledError.
TransportErrors == {"Timeout", "Bleak", "OS"}
ExcKinds == TransportErrors \cup {"Other"}

HsSteps == <<"sub_STATUS", "sub_SHORT", "sub_META", "sub_DATA",
             "write_auth", "write_start", "write_time">>
HsWrites == {"write_auth", "write_start", "write_time"}
HsSubs == {"sub_STATUS", "sub_SHORT", "sub_META", "sub_DATA"}

AwaitPcs == {"connect", "hs_wait", "listen_sleep", "disconnect", "sup_delay"}

None == -1
NoFrame == [ch |-> "none", data |-> <<>>]
NoOut == [kind |-> "none"]
NoCall == [fn |-> "none", arg |-> <<>>]
NotCalled == [done |-> FALSE, val |-> <<>>]
NoDevices == [mac \in {} |-> {}]
DecodeNone == [none |-> TRUE]

\* --------------------------------------------------------------- decoders
\* Byte buffers are sequences over 0..255; buf[off] of the source is buf[off + 1].
\* Mutant: the two bytes are read big-endian.
u16_le_BigEndian(buf, off) == buf[off + 1] * 256 + buf[off + 2]

u16_le(buf, off) == buf[off + 1] + buf[off + 2] * 256

decode_header_datetime(header) ==
    IF Len(header) # 6 THEN DecodeNone
    ELSE [year_offset |-> header[1], year_2000 |-> 2000 + header[1],
          month |-> header[2], day |-> header[3], hour |-> header[4],
          minute |-> header[5], second |-> header[6]]

\* particles is kept in ten-thousandths: 3.53 is 353 hundredths, and the
\* division comes last, as in the source.
PARTICLE_CORRECTION_E2 == 353
PARTICLE_DIVISOR == 1000

\* Mutant: the division is done before the multiplication by 3.53.
Particles_e4_DivisionFirst(msb, lsb) ==
    msb * PARTICLE_MULTIPLIER_BASE * 10000
    + ((lsb * PARTICLE_MULTIPLIER_LSB) \div PARTICLE_DIVISOR) * PARTICLE_CORRECTION_E2 * 100

\* The product lsb * 6250 * 353 is in hundredths; dividing it by
\* PARTICLE_DIVISOR / 100 leaves ten-thousandths (and keeps every
\* intermediate value below 2^31).
Particles_e4(msb, lsb) ==
    msb * PARTICLE_MULTIPLIER_BASE * 10000
    + (lsb * PARTICLE_MULTIPLIER_LSB * PARTICLE_CORRECTION_E2) \div (PARTICLE_DIVISOR \div 100)

\* Mutant: only buffers shorter than 20 bytes are rejected.
decode_data_frame_LongAccepted(payload) ==
    IF Len(payload) < PACKET_SIZE_DATA THEN DecodeNone
    ELSE LET pm25 == u16_le(payload, 6)
             msb == (pm25 \div 256) % 256
             lsb == pm25 % 256
             flag == payload[20]
         IN [header |-> decode_header_datetime(SubSeq(payload, 1, 6)),
             pm25 |-> pm25,
             pm1 |-> u16_le(payload, 8),
             pm10 |-> u16_le(payload, 10),
             unknown1 |-> u16_le(payload, 12),
             unused4 |-> SubSeq(payload, 15, 18),
             counter |-> payload[19],
             flag |-> flag,
             flag_meaning |-> IF flag = 1 THEN "current" ELSE "history",
             particles_e4 |-> Particles_e4(msb, lsb),
             particles_msb |-> msb,
             particles_lsb |-> lsb]

decode_data_frame(payload) ==
    IF Len(payload) # PACKET_SIZE_DATA THEN DecodeNone
    ELSE LET pm25 == u16_le(payload, 6)
             msb == (pm25 \div 256) % 256
             lsb == pm25 % 256
             flag == payload[20]
         IN [header |-> decode_header_datetime(SubSeq(payload, 1, 6)),
             pm25 |-> pm25,
             pm1 |-> u16_le(payload, 8),
             pm10 |-> u16_le(payload, 10),
             unknown1 |-> u16_le(payload, 12),
             unused4 |-> SubSeq(payload, 15, 18),
             counter |-> payload[19],
             flag |-> flag,
             flag_meaning |-> IF flag = 1 THEN "current" ELSE "history",
             particles_e4 |-> Particles_e4(msb, lsb),
             particles_msb |-> msb,
             particles_lsb |-> lsb]

\* Mutant: an empty payload yields the level decoded last.
decode_status_battery_RemembersLast(payload) ==
    IF Len(payload) < 1
    THEN [battery_raw |-> latest_battery, battery_percent |-> latest_battery]
    ELSE [battery_raw |-> payload[1], battery_percent |-> payload[1]]

decode_status_battery(payload) ==
    IF Len(payload) < 1 THEN DecodeNone
    ELSE [battery_raw |-> payload[1], battery_percent |-> payload[1]]

decode_meta_time_mode(payload) ==
    IF Len(payload) # PACKET_SIZE_META THEN DecodeNone
    ELSE [flag |-> payload[1], year |-> 2000 + payload[2], month |-> payload[3],
          day |-> payload[4], hour |-> payload[5], minute |-> payload[6],
          second |-> payload[7], mode |-> payload[8]]

\* ----------------------------------------------------------------- router
\* The DATA branch's filter (monitor.py:643): a record is skipped only when
\* its flag byte is 0 and history is not requested.
SkipHistorical(decoded) == decoded.flag = 0 /\ ~include_history

\* Mutant: a META frame with flag 0x02 is accepted at any length.
RouterOut_ShortLengthNotChecked(f) ==
    CASE f.ch = "DATA" ->
           LET decoded == decode_data_frame(f.data) IN
           IF decoded = DecodeNone THEN [kind |-> "invalid"]
           ELSE IF SkipHistorical(decoded)
                THEN [kind |-> "skipped", counter |-> decoded.counter]
                ELSE [kind |-> "reading",
                      header |-> decoded.header,
                      pm1 |-> decoded.pm1, pm25 |-> decoded.pm25,
                      pm10 |-> decoded.pm10,
                      particles_e4 |-> decoded.particles_e4,
                      battery |-> latest_battery,
                      flag_meaning |-> decoded.flag_meaning]
      [] f.ch = "STATUS" ->
           LET decoded == decode_status_battery(f.data) IN
           IF decoded = DecodeNone THEN [kind |-> "invalid"]
           ELSE [kind |-> "battery", battery |-> decoded.battery_percent]
      [] f.ch = "META" ->
           IF Len(f.data) = 0 THEN [kind |-> "invalid"]
           ELSE IF f.data[1] = META_FLAG_TIME_CONFIRMATION
                THEN IF Len(f.data) # PACKET_SIZE_META_LONG THEN [kind |-> "invalid"]
                     ELSE LET decoded == decode_meta_time_mode(f.data) IN
                          IF decoded = DecodeNone THEN [kind |-> "invalid"]
                          ELSE [kind |-> "time_confirmed", time |-> decoded]
           ELSE IF f.data[1] = META_FLAG_SHORT_RESPONSE
                THEN [kind |-> "short_response"]
           ELSE [kind |-> "invalid"]
      [] f.ch = "SHORT" -> [kind |-> "ignored"]

\* What notification_handler does with frame f: the event it produces.  A
\* reading merges sensor_state.latest_battery (output_json_data, the MQTT
\* payload).
RouterOut(f) ==
    CASE f.ch = "DATA" ->
           LET decoded == decode_data_frame(f.data) IN
           IF decoded = DecodeNone THEN [kind |-> "invalid"]
           ELSE IF SkipHistorical(decoded)
                THEN [kind |-> "skipped", counter |-> decoded.counter]
                ELSE [kind |-> "reading",
                      header |-> decoded.header,
                      pm1 |-> decoded.pm1, pm25 |-> decoded.pm25,
                      pm10 |-> decoded.pm10,
                      particles_e4 |-> decoded.particles_e4,
                      battery |-> latest_battery,
                      flag_meaning |-> decoded.flag_meaning]
      [] f.ch = "STATUS" ->
           LET decoded == decode_status_battery(f.data) IN
           IF decoded = DecodeNone THEN [kind |-> "invalid"]
           ELSE [kind |-> "battery", battery |-> decoded.battery_percent]
      [] f.ch = "META" ->
           IF Len(f.data) = 0 THEN [kind |-> "invalid"]
           ELSE IF f.data[1] = META_FLAG_TIME_CONFIRMATION
                THEN IF Len(f.data) # PACKET_SIZE_META_LONG THEN [kind |-> "invalid"]
                     ELSE LET decoded == decode_meta_time_mode(f.data) IN
                          IF decoded = DecodeNone THEN [kind |-> "invalid"]
                          ELSE [kind |-> "time_confirmed", time |-> decoded]
           ELSE IF f.data[1] = META_FLAG_SHORT_RESPONSE
                THEN IF Len(f.data) # PACKET_SIZE_META_SHORT THEN [kind |-> "invalid"]
                     ELSE [kind |-> "short_response"]
           ELSE [kind |-> "invalid"]
      [] f.ch = "SHORT" -> [kind |-> "ignored"]

\* The channels whose start_notify has returned in this session.
SubStepOf(ch) ==
    CASE ch = "STATUS" -> "sub_STATUS" [] ch = "SHORT" -> "sub_SHORT"
      [] ch = "META" -> "sub_META" [] ch = "DATA" -> "sub_DATA"

Subscribed == {ch \in {"STATUS", "SHORT", "META", "DATA"} : SubStepOf(ch) \in hsConfirmed}

\* Mutant: the liveness clock is updated after decoding, so a frame that
\* fails to decode returns before it.
notification_handler_ClockAfterDecode(f) ==
    /\ pc \in {"hs_wait", "listen_sleep", "disconnect"}
    /\ f.ch \in Subscribed
    /\ last_data_time' = IF RouterOut(f).kind = "invalid" THEN last_data_time ELSE now
    /\ lastIn' = f
    /\ lastOut' = RouterOut(f)
    /\ LET out == RouterOut(f) IN
       IF out.kind = "battery"
       THEN latest_battery' = out.battery /\ sessStatus' = out.battery
       ELSE UNCHANGED <<latest_battery, sessStatus>>
    /\ UNCHANGED <<supVars, hsVars, unwindVars, cancelVars, mqttVars,
                   fatalObserved, staticVars, now>>

\* Mutant: the STATUS branch logs the battery level without storing it.
notification_handler_BatteryNotStored(f) ==
    /\ pc \in {"hs_wait", "listen_sleep", "disconnect"}
    /\ f.ch \in Subscribed
    /\ last_data_time' = now
    /\ lastIn' = f
    /\ lastOut' = RouterOut(f)
    /\ LET out == RouterOut(f) IN
       IF out.kind = "battery"
       THEN sessStatus' = out.battery /\ UNCHANGED latest_battery
       ELSE UNCHANGED <<latest_battery, sessStatus>>
    /\ UNCHANGED <<supVars, hsVars, unwindVars, cancelVars, mqttVars,
                   fatalObserved, staticVars, now>>

\* Mutant: a STATUS frame that fails to decode resets the battery value.
notification_handler_InvalidStatusResets(f) ==
    /\ pc \in {"hs_wait", "listen_sleep", "disconnect"}
    /\ f.ch \in Subscribed
    /\ last_data_time' = now
    /\ lastIn' = f
    /\ lastOut' = RouterOut(f)
    /\ LET out == RouterOut(f) IN
       IF out.kind = "battery"
       THEN latest_battery' = out.battery /\ sessStatus' = out.battery
       ELSE IF out.kind = "invalid" /\ f.ch = "STATUS"
       THEN latest_battery' = InitialBattery /\ UNCHANGED sessStatus
       ELSE UNCHANGED <<latest_battery, sessStatus>>
    /\ UNCHANGED <<supVars, hsVars, unwindVars, cancelVars, mqttVars,
                   fatalObserved, staticVars, now>>

\* Mutant: a decode failure raises out of the router and tears the session
\* down.
notification_handler_DecodeFailureRaises(f) ==
    /\ pc \in {"hs_wait", "listen_sleep", "disconnect"}
    /\ f.ch \in Subscribed
    /\ last_data_time' = now
    /\ lastIn' = f
    /\ lastOut' = RouterOut(f)
    /\ LET out == RouterOut(f) IN
       IF out.kind = "battery"
       THEN latest_battery' = out.battery /\ sessStatus' = out.battery
       ELSE UNCHANGED <<latest_battery, sessStatus>>
    /\ IF RouterOut(f).kind = "invalid" /\ pc # "disconnect"
       THEN /\ pc' = "disconnect"
            /\ sessState' = "Closing"
            /\ exc' = "OS"
            /\ disposition' = "decodefail"
            /\ discAttempted' = TRUE
       ELSE UNCHANGED <<pc, sessState, exc, disposition, discAttempted>>
    /\ UNCHANGED <<sessions, outcome, prevDisposition, hsVars, handleOpen,
                   discResult, cancelVars, mqttVars, fatalObserved,
                   staticVars, now>>

\* Mutant: the handler is a coroutine that yields between the clock update
\* and the dispatch, so the event loop can run something else in between.
notification_handler_YieldsBeforeDispatch(f) ==
    /\ pc \in {"hs_wait", "listen_sleep", "disconnect"}
    /\ f.ch \in Subscribed
    /\ last_data_time' = now
    /\ lastIn' = f
    /\ \/ /\ lastOut' = [kind |-> "pending"]
          /\ UNCHANGED <<latest_battery, sessStatus>>
       \/ /\ lastOut' = RouterOut(f)
          /\ LET out == RouterOut(f) IN
             IF out.kind = "battery"
             THEN latest_battery' = out.battery /\ sessStatus' = out.battery
             ELSE UNCHANGED <<latest_battery, sessStatus>>
    /\ UNCHANGED <<supVars, hsVars, unwindVars, cancelVars, mqttVars,
                   fatalObserved, staticVars, now>>

\* notification_handler(ch, data): runs on the event loop while the task is
\* suspended in a session that has subscribed to the frame's channel.
notification_handler(f) ==
    /\ pc \in {"hs_wait", "listen_sleep", "disconnect"}
    /\ f.ch \in Subscribed
    /\ last_data_time' = now
    /\ lastIn' = f
    /\ lastOut' = RouterOut(f)
    /\ LET out == RouterOut(f) IN
       IF out.kind = "battery"
       THEN latest_battery' = out.battery /\ sessStatus' = out.battery
       ELSE UNCHANGED <<latest_battery, sessStatus>>
    /\ UNCHANGED <<supVars, hsVars, unwindVars, cancelVars, mqttVars,
                   fatalObserved, staticVars, now>>

Notify(frames) == \E f \in frames : notification_handler(f)

\* ------------------------------------------------------------- supervisor
\* Mutant: a session that returns ends the loop instead of being retried.
SupNextPc_ReturnEnds(e) ==
    IF e \in TransportErrors THEN "sup_delay" ELSE "terminated"

\* Mutant: monitor_device has no handler for BleakError.
SupNextPc_BleakEnds(e) ==
    IF e = "none" \/ e \in (TransportErrors \ {"Bleak"}) THEN "sup_delay"
    ELSE "terminated"

\* Mutant: monitor_device's last handler is "except Exception", so every
\* exception but CancelledError is retried.
SupNextPc_AnyExceptionRetried(e) ==
    IF e = "Cancelled" THEN "terminated" ELSE "sup_delay"

\* monitor_device's try/except around one session: where the task goes when
\* the session ends with exception e ("none": it returned).  A return and
\* the three handled classes reach an asyncio.sleep(retry_delay); anything
\* else, CancelledError included, leaves the loop.
SupNextPc(e) ==
    IF e = "none" \/ e \in TransportErrors THEN "sup_delay" ELSE "terminated"

SupOutcome(e) == IF e = "none" THEN "return" ELSE e

\* What leaves the async-with block: an exception raised by disconnect in
\* __aexit__ replaces the one that was unwinding.
Escaping(pending, d) == IF d = "ok" THEN pending ELSE d

\* Mutant: the client is used without the async-with block, so nothing calls
\* disconnect when control leaves.
Unwind_NoAexit(e, why) ==
    /\ pc' = IF e = "none" \/ e \in TransportErrors THEN "sup_delay" ELSE "terminated"
    /\ outcome' = IF e = "none" THEN "return" ELSE e
    /\ exc' = "none"
    /\ sessState' = "Closed"
    /\ disposition' = why
    /\ UNCHANGED discAttempted

\* Control leaves the async-with block (a return, a break or an exception e
\* raised inside it): BleakClient.__aexit__ calls disconnect before anything
\* reaches monitor_device.
Unwind(e, why) ==
    /\ pc' = "disconnect"
    /\ exc' = e
    /\ sessState' = "Closing"
    /\ disposition' = why
    /\ discAttempted' = TRUE
    /\ UNCHANGED outcome

\* Mutant: the fatal check before connecting (monitor.py:854) is missing.
SessionStart_NoFatalCheck ==
    /\ pc = "sup_call"
    /\ pc' = "connect"
    /\ sessState' = "Connecting"
    /\ UNCHANGED <<outcome, disposition, fatalObserved>>
    /\ UNCHANGED <<sessions, prevDisposition, hsVars, unwindVars, cancelVars,
                   mqttVars, staticVars, routerVars, last_data_time, now>>

\* The while loop calls monitor_device_connection: the fatal check
\* (monitor.py:854) exits the process, otherwise BleakClient.__aenter__
\* starts connecting.
SessionStart ==
    /\ pc = "sup_call"
    /\ IF mqtt_fatal_error
       THEN /\ pc' = "terminated"
            /\ outcome' = "SystemExit"
            /\ sessState' = "Closed"
            /\ disposition' = "sinkfatal"
            /\ fatalObserved' = TRUE
       ELSE /\ pc' = "connect"
            /\ sessState' = "Connecting"
            /\ UNCHANGED <<outcome, disposition, fatalObserved>>
    /\ UNCHANGED <<sessions, prevDisposition, hsVars, unwindVars, cancelVars,
                   mqttVars, staticVars, routerVars, last_data_time, now>>

\* Mutant: the is_connected test (monitor.py:862) is missing, so the
\* handshake starts on a client that is not connected.
ConnectDone_NoIsConnectedCheck(outs) ==
    /\ pc = "connect"
    /\ \E o \in outs :
         CASE o \in {"ok", "notconnected"} ->
                /\ pc' = "hs_issue"
                /\ sessState' = "Initializing"
                /\ handleOpen' = (o = "ok")
                /\ UNCHANGED <<outcome, disposition, discAttempted, exc>>
           [] OTHER ->
                /\ pc' = SupNextPc(o)
                /\ outcome' = SupOutcome(o)
                /\ sessState' = "Closed"
                /\ disposition' = "connfail"
                /\ UNCHANGED <<handleOpen, discAttempted, exc>>
    /\ UNCHANGED <<sessions, prevDisposition, hsVars, discResult, cancelVars,
                   mqttVars, fatalObserved, staticVars, routerVars,
                   last_data_time, now>>

\* BleakClient.__aenter__ returns or raises.  A raise skips __aexit__ and
\* goes through the handlers to monitor_device; "notconnected" is the
\* is_connected test failing (monitor.py:862), a return through __aexit__.
ConnectDone(outs) ==
    /\ pc = "connect"
    /\ \E o \in outs :
         CASE o = "ok" ->
                /\ pc' = "hs_issue"
                /\ sessState' = "Initializing"
                /\ handleOpen' = TRUE
                /\ UNCHANGED <<outcome, disposition, discAttempted, exc>>
           [] o = "notconnected" ->
                /\ Unwind("none", "connfail")
                /\ UNCHANGED handleOpen
           [] OTHER ->
                /\ pc' = SupNextPc(o)
                /\ outcome' = SupOutcome(o)
                /\ sessState' = "Closed"
                /\ disposition' = "connfail"
                /\ UNCHANGED <<handleOpen, discAttempted, exc>>
    /\ UNCHANGED <<sessions, prevDisposition, hsVars, discResult, cancelVars,
                   mqttVars, fatalObserved, staticVars, routerVars,
                   last_data_time, now>>

\* Mutant: the next request is started without awaiting the previous one.
HsIssue_Pipelined ==
    /\ pc \in {"hs_issue", "hs_wait"}
    /\ Len(hsIssued) < Len(HsSteps)
    /\ LET step == HsSteps[Len(hsIssued) + 1] IN
         /\ hsIssued' = Append(hsIssued, step)
         /\ inflight' = inflight \cup {step}
    /\ pc' = "hs_wait"
    /\ UNCHANGED <<sessions, sessState, outcome, disposition, prevDisposition,
                   hsConfirmed, hsFailed, unwindVars, cancelVars, mqttVars,
                   fatalObserved, staticVars, routerVars, last_data_time, now>>

\* initialize_device calls the next start_notify / write_gatt_char.
HsIssue ==
    /\ pc = "hs_issue"
    /\ Len(hsIssued) < Len(HsSteps)
    /\ LET step == HsSteps[Len(hsIssued) + 1] IN
         /\ hsIssued' = Append(hsIssued, step)
         /\ inflight' = inflight \cup {step}
    /\ pc' = "hs_wait"
    /\ UNCHANGED <<sessions, sessState, outcome, disposition, prevDisposition,
                   hsConfirmed, hsFailed, unwindVars, cancelVars, mqttVars,
                   fatalObserved, staticVars, routerVars, last_data_time, now>>

\* Mutant: a failed request is logged and the handshake goes on.
HsComplete_SwallowsFailure(outs) ==
    /\ pc = "hs_wait"
    /\ \E step \in inflight, o \in outs :
         /\ IF o = "ok"
            THEN hsConfirmed' = hsConfirmed \cup {step} /\ UNCHANGED hsFailed
            ELSE hsFailed' = hsFailed \cup {step} /\ UNCHANGED hsConfirmed
         /\ inflight' = inflight \ {step}
         /\ pc' = IF inflight \ {step} # {} THEN "hs_wait"
                   ELSE IF Len(hsIssued) = Len(HsSteps) THEN "listen_enter"
                   ELSE "hs_issue"
         /\ UNCHANGED <<sessState, disposition, exc, discAttempted, outcome>>
    /\ UNCHANGED <<sessions, prevDisposition, hsIssued, handleOpen, discResult,
                   cancelVars, mqttVars, fatalObserved, staticVars,
                   routerVars, last_data_time, now>>

\* The awaited request returns, or raises and unwinds into __aexit__.
HsComplete(outs) ==
    /\ pc = "hs_wait"
    /\ \E step \in inflight, o \in outs :
         IF o = "ok"
         THEN /\ hsConfirmed' = hsConfirmed \cup {step}
              /\ inflight' = inflight \ {step}
              /\ pc' = IF inflight \ {step} # {} THEN "hs_wait"
                        ELSE IF Len(hsIssued) = Len(HsSteps) THEN "listen_enter"
                        ELSE "hs_issue"
              /\ UNCHANGED <<sessState, disposition, exc, discAttempted, outcome,
                             hsFailed>>
         ELSE /\ inflight' = {}
              /\ hsFailed' = hsFailed \cup {step}
              /\ Unwind(o, "hsfail")
              /\ UNCHANGED hsConfirmed
    /\ UNCHANGED <<sessions, prevDisposition, hsIssued, handleOpen, discResult,
                   cancelVars, mqttVars, fatalObserved, staticVars,
                   routerVars, last_data_time, now>>

\* Mutant: the liveness clock is not set when the poll loop begins.
EnterListening_ClockNotSet ==
    /\ pc = "listen_enter"
    /\ pc' = "listen_poll"
    /\ sessState' = "Listening"
    /\ UNCHANGED <<sessions, outcome, disposition, prevDisposition, hsVars,
                   unwindVars, cancelVars, mqttVars, fatalObserved,
                   staticVars, routerVars, last_data_time, now>>

\* Mutant: the liveness clock is set on entering the poll loop only when it
\* holds no value yet.
EnterListening_KeepsEarlierClock ==
    /\ pc = "listen_enter"
    /\ pc' = "listen_poll"
    /\ sessState' = "Listening"
    /\ last_data_time' = IF last_data_time = None THEN now ELSE last_data_time
    /\ UNCHANGED <<sessions, outcome, disposition, prevDisposition, hsVars,
                   unwindVars, cancelVars, mqttVars, fatalObserved,
                   staticVars, routerVars, now>>

\* initialize_device has returned: the liveness clock is set to the current
\* time (monitor.py:884) and the poll loop begins.
EnterListening ==
    /\ pc = "listen_enter"
    /\ pc' = "listen_poll"
    /\ sessState' = "Listening"
    /\ last_data_time' = now
    /\ UNCHANGED <<sessions, outcome, disposition, prevDisposition, hsVars,
                   unwindVars, cancelVars, mqttVars, fatalObserved,
                   staticVars, routerVars, now>>

\* Mutant: the silence test fires as soon as the threshold is reached.
SilenceExceeded_AtThreshold ==
    last_data_time # None /\ now - last_data_time >= ResponseTimeout

\* The silence test of the poll loop (monitor.py:893-895).
SilenceExceeded ==
    last_data_time # None /\ now - last_data_time > ResponseTimeout

\* Mutant: on a silence timeout the disconnect is left to a background task
\* and the session returns at once.
ListenPoll_TeardownNotAwaited ==
    /\ pc = "listen_poll"
    /\ IF mqtt_fatal_error
       THEN /\ Unwind("none", "sinkfatal")
            /\ fatalObserved' = TRUE
       ELSE IF SilenceExceeded
       THEN /\ pc' = "sup_delay"
            /\ sessState' = "Closing"
            /\ disposition' = "silence"
            /\ outcome' = "return"
            /\ discAttempted' = TRUE
            /\ UNCHANGED <<exc, fatalObserved>>
       ELSE /\ pc' = "listen_sleep"
            /\ UNCHANGED <<sessState, disposition, fatalObserved, discAttempted,
                           exc, outcome>>
    /\ UNCHANGED <<sessions, prevDisposition, hsVars, handleOpen, discResult,
                   cancelVars, mqttVars, staticVars, routerVars,
                   last_data_time, now>>

\* One pass of the poll loop up to its sleep (monitor.py:886-904): either
\* break leaves the async-with block, so __aexit__ calls disconnect.
ListenPoll ==
    /\ pc = "listen_poll"
    /\ IF mqtt_fatal_error
       THEN /\ Unwind("none", "sinkfatal")
            /\ fatalObserved' = TRUE
       ELSE IF SilenceExceeded
       THEN /\ Unwind("none", "silence")
            /\ UNCHANGED fatalObserved
       ELSE /\ pc' = "listen_sleep"
            /\ UNCHANGED <<sessState, disposition, fatalObserved, discAttempted,
                           exc, outcome>>
    /\ UNCHANGED <<sessions, prevDisposition, hsVars, handleOpen, discResult,
                   cancelVars, mqttVars, staticVars, routerVars,
                   last_data_time, now>>

\* asyncio.sleep(1) returns: at least one second has passed.
ListenSleepDone ==
    /\ pc = "listen_sleep"
    /\ now < MaxTime
    /\ now' = now + 1
    /\ pc' = "listen_poll"
    /\ UNCHANGED <<sessions, sessState, outcome, disposition, prevDisposition,
                   hsVars, unwindVars, cancelVars, mqttVars, fatalObserved,
                   staticVars, routerVars, last_data_time>>

\* BleakClient.__aexit__: the disconnect call returns or raises; what
\* escapes the block goes through monitor_device_connection's handlers (they
\* log and re-raise) to monitor_device.  After a failed disconnect the link
\* may or may not still be up.
DisconnectDone(outs) ==
    /\ pc = "disconnect"
    /\ \E d \in outs :
         /\ discResult' = d
         /\ pc' = SupNextPc(Escaping(exc, d))
         /\ outcome' = SupOutcome(Escaping(exc, d))
         /\ IF d = "ok" THEN handleOpen' = FALSE
            ELSE handleOpen' \in {handleOpen, FALSE}
    /\ sessState' = "Closed"
    /\ exc' = "none"
    /\ UNCHANGED <<sessions, disposition, prevDisposition, hsVars, discAttempted,
                   cancelVars, mqttVars, fatalObserved, staticVars, routerVars,
                   last_data_time, now>>

\* asyncio.sleep(retry_delay) returns and the while loop comes round: the
\* next session exists, not yet connecting.
SupDelayDone ==
    /\ pc = "sup_delay"
    /\ sessions < MaxSessions
    /\ sessions' = sessions + 1
    /\ pc' = "sup_call"
    /\ sessState' = "Idle"
    /\ disposition' = "none"
    /\ prevDisposition' = disposition
    /\ hsIssued' = <<>>
    /\ hsConfirmed' = {}
    /\ inflight' = {}
    /\ hsFailed' = {}
    /\ handleOpen' = FALSE
    /\ discAttempted' = FALSE
    /\ discResult' = "none"
    /\ sessStatus' = None
    /\ UNCHANGED <<outcome, exc, cancelVars, mqttVars, fatalObserved,
                   staticVars, latest_battery, lastIn, lastOut,
                   last_data_time, now>>

\* Mutant: the retry delay is shielded from cancellation.
Cancel_DelayShielded ==
    /\ pc \in AwaitPcs
    /\ cancels < MaxCancels
    /\ cancels' = cancels + 1
    /\ cancelledIn' = IF pc = "sup_delay" THEN "Delay" ELSE sessState
    /\ IF pc \in {"hs_wait", "listen_sleep"}
       THEN /\ Unwind("Cancelled", "cancel")
            /\ inflight' = {}
       ELSE /\ pc' = IF pc = "sup_delay" THEN pc ELSE SupNextPc("Cancelled")
            /\ outcome' = IF pc = "sup_delay" THEN outcome ELSE SupOutcome("Cancelled")
            /\ exc' = "none"
            /\ sessState' = IF pc = "sup_delay" THEN sessState ELSE "Closed"
            /\ disposition' = IF pc = "connect" THEN "cancel" ELSE disposition
            /\ UNCHANGED <<discAttempted, inflight>>
    /\ UNCHANGED <<sessions, prevDisposition, hsIssued, hsConfirmed, hsFailed,
                   handleOpen, discResult, mqttVars, fatalObserved,
                   staticVars, routerVars, last_data_time, now>>

\* External cancellation: CancelledError is raised at the await the task is
\* suspended in.  Inside the async-with block it unwinds into __aexit__; at
\* connect, in disconnect and in a retry delay it goes straight up to
\* monitor_device, which re-raises it.
Cancel ==
    /\ pc \in AwaitPcs
    /\ cancels < MaxCancels
    /\ cancels' = cancels + 1
    /\ cancelledIn' = IF pc = "sup_delay" THEN "Delay" ELSE sessState
    /\ IF pc \in {"hs_wait", "listen_sleep"}
       THEN /\ Unwind("Cancelled", "cancel")
            /\ inflight' = {}
       ELSE /\ pc' = SupNextPc("Cancelled")
            /\ outcome' = SupOutcome("Cancelled")
            /\ exc' = "none"
            /\ sessState' = IF pc = "sup_delay" THEN sessState ELSE "Closed"
            /\ disposition' = IF pc = "connect" THEN "cancel" ELSE disposition
            /\ UNCHANGED <<discAttempted, inflight>>
    /\ UNCHANGED <<sessions, prevDisposition, hsIssued, hsConfirmed, hsFailed,
                   handleOpen, discResult, mqttVars, fatalObserved,
                   staticVars, routerVars, last_data_time, now>>

\* ------------------------------------------------------------------- sink
\* Mutant: a successful connection also clears the fatal flag.
mqtt_on_connect_SuccessClearsFatal(reason_code) ==
    /\ IF reason_code = 0
       THEN /\ mqtt_connection_failed_count' = 0
            /\ mqtt_fatal_error' = FALSE
       ELSE /\ mqtt_connection_failed_count < MaxFailCount
            /\ mqtt_connection_failed_count' = mqtt_connection_failed_count + 1
            /\ mqtt_fatal_error' =
                 IF mqtt_connection_failed_count + 1 >= MqttMaxConnectionAttempts
                 THEN TRUE ELSE mqtt_fatal_error
    /\ UNCHANGED <<supVars, hsVars, unwindVars, cancelVars, fatalObserved,
                   staticVars, routerVars, last_data_time, now>>

\* mqtt_on_connect(reason_code), on the MQTT client's thread.
mqtt_on_connect(reason_code) ==
    /\ IF reason_code = 0
       THEN /\ mqtt_connection_failed_count' = 0
            /\ UNCHANGED mqtt_fatal_error
       ELSE /\ mqtt_connection_failed_count < MaxFailCount
            /\ mqtt_connection_failed_count' = mqtt_connection_failed_count + 1
            /\ mqtt_fatal_error' =
                 IF mqtt_connection_failed_count + 1 >= MqttMaxConnectionAttempts
                 THEN TRUE ELSE mqtt_fatal_error
    /\ UNCHANGED <<supVars, hsVars, unwindVars, cancelVars, fatalObserved,
                   staticVars, routerVars, last_data_time, now>>

\* mqtt_on_disconnect(reason_code), on the MQTT client's thread.
mqtt_on_disconnect(reason_code) ==
    /\ IF reason_code # 0
       THEN /\ mqtt_connection_failed_count < MaxFailCount
            /\ mqtt_connection_failed_count' = mqtt_connection_failed_count + 1
            /\ mqtt_fatal_error' =
                 IF mqtt_connection_failed_count + 1 >= MqttMaxConnectionAttempts
                 THEN TRUE ELSE mqtt_fatal_error
       ELSE UNCHANGED mqttVars
    /\ UNCHANGED <<supVars, hsVars, unwindVars, cancelVars, fatalObserved,
                   staticVars, routerVars, last_data_time, now>>

ReasonCodes == {0, 5}

MqttOnConnect == pc # "terminated" /\ \E rc \in ReasonCodes : mqtt_on_connect(rc)
MqttOnDisconnect == pc # "terminated" /\ \E rc \in ReasonCodes : mqtt_on_disconnect(rc)

\* ------------------------------------------------------------------ clock
\* Time passes while the task is anywhere but terminated.
Tick ==
    /\ pc # "terminated"
    /\ now < MaxTime
    /\ now' = now + 1
    /\ UNCHANGED <<supVars, hsVars, unwindVars, cancelVars, mqttVars,
                   fatalObserved, staticVars, routerVars, last_data_time>>

\* ----------------------------------------------------------------- frames
DataFrame(pm25lo, pm25hi, counter, flag) ==
    <<25, 6, 15, 10, 30, 45, pm25lo, pm25hi, 7, 0, 9, 0, 0, 0, 0, 0, 0, 0, counter, flag>>

ShortFrame == [ch |-> "SHORT", data |-> <<1, 2>>]

LifecycleFrames == {ShortFrame}

MetaTimeFrame == <<META_FLAG_TIME_CONFIRMATION, 25, 6, 15, 10, 30, 45, 0>>

\* Frames for the router: two battery reports, a current record, two records
\* whose flag byte is not 1, the two META packet types and a SHORT frame;
\* and the buffers no decoder accepts: a DATA buffer one byte short, an empty
\* STATUS, an empty META, a META with an unknown flag, and a META of each
\* known flag with the wrong length.
RouterFrames ==
    { [ch |-> "STATUS", data |-> <<42>>],
      [ch |-> "STATUS", data |-> <<87>>],
      [ch |-> "DATA", data |-> DataFrame(5, 1, 3, 1)],
      [ch |-> "DATA", data |-> DataFrame(5, 1, 4, 0)],
      [ch |-> "DATA", data |-> DataFrame(5, 1, 5, 2)],
      [ch |-> "META", data |-> MetaTimeFrame],
      [ch |-> "META", data |-> <<META_FLAG_SHORT_RESPONSE, 0>>],
      ShortFrame,
      [ch |-> "DATA", data |-> SubSeq(DataFrame(5, 1, 6, 1), 1, 19)],
      [ch |-> "STATUS", data |-> <<>>],
      [ch |-> "META", data |-> <<>>],
      [ch |-> "META", data |-> <<9, 0>>],
      [ch |-> "META", data |-> SubSeq(MetaTimeFrame, 1, 7)],
      [ch |-> "META", data |-> <<META_FLAG_SHORT_RESPONSE, 0, 0>>] }

\* ---------------------------------------------------------- specification
InitWith(history) ==
    /\ pc = "sup_call"
    /\ sessions = 1
    /\ sessState = "Idle"
    /\ hsIssued = <<>>
    /\ hsConfirmed = {}
    /\ inflight = {}
    /\ hsFailed = {}
    /\ exc = "none"
    /\ outcome = "none"
    /\ disposition = "none"
    /\ prevDisposition = "none"
    /\ handleOpen = FALSE
    /\ discAttempted = FALSE
    /\ discResult = "none"
    /\ cancels = 0
    /\ cancelledIn = "none"
    /\ mqtt_connection_failed_count = 0
    /\ mqtt_fatal_error = FALSE
    /\ fatalObserved = FALSE
    /\ include_history \in history
    /\ latest_battery = InitialBattery
    /\ last_data_time = None
    /\ now = 0
    /\ sessStatus = None
    /\ lastIn = NoFrame
    /\ lastOut = NoOut
    /\ discovered_devices = NoDevices

\* No function is being evaluated on the side.
NoCallPending == callIn = NoCall /\ callOut = NotCalled

Init == InitWith({FALSE}) /\ NoCallPending

ConnectOuts == {"ok", "notconnected"} \cup ExcKinds
StepOuts == {"ok"} \cup ExcKinds
DisconnectOuts == {"ok"} \cup TransportErrors

Next ==
    \/ SessionStart
    \/ ConnectDone(ConnectOuts)
    \/ HsIssue
    \/ HsComplete(StepOuts)
    \/ EnterListening
    \/ ListenPoll
    \/ ListenSleepDone
    \/ DisconnectDone(DisconnectOuts)
    \/ SupDelayDone
    \/ Cancel
    \/ MqttOnConnect
    \/ MqttOnDisconnect
    \/ Tick
    \/ Notify(LifecycleFrames)

Spec == Init /\ [][Next]_vars

\* The same program over a transport whose disconnect call may also raise
\* an exception outside the classes monitor_device handles.
AnyDisconnectOuts == {"ok"} \cup ExcKinds

NextUnhandled ==
    \/ SessionStart
    \/ ConnectDone(ConnectOuts)
    \/ HsIssue
    \/ HsComplete(StepOuts)
    \/ EnterListening
    \/ ListenPoll
    \/ ListenSleepDone
    \/ DisconnectDone(AnyDisconnectOuts)
    \/ SupDelayDone
    \/ Cancel
    \/ MqttOnConnect
    \/ MqttOnDisconnect
    \/ Tick
    \/ Notify(LifecycleFrames)

SpecUnhandled == Init /\ [][NextUnhandled]_vars

\* The router under a transport that does not fail: sessions end by silence
\* only, and frames of RouterFrames arrive in any order.
InitRouter == InitWith(BOOLEAN) /\ NoCallPending

NextRouter ==
    \/ SessionStart
    \/ ConnectDone({"ok"})
    \/ HsIssue
    \/ HsComplete({"ok"})
    \/ EnterListening
    \/ ListenPoll
    \/ ListenSleepDone
    \/ DisconnectDone({"ok"})
    \/ SupDelayDone
    \/ Notify(RouterFrames)

SpecRouter == InitRouter /\ [][NextRouter]_vars

\* The link drops while the session is in the poll loop.  The loop makes no
\* transport call and does not test is_connected, so nothing is raised: the
\* only effect is that frames stop arriving.
LinkLoss ==
    /\ pc \in {"listen_poll", "listen_sleep"}
    /\ handleOpen
    /\ handleOpen' = FALSE
    /\ UNCHANGED <<supVars, hsVars, exc, discAttempted, discResult, cancelVars,
                   mqttVars, fatalObserved, staticVars, routerVars,
                   last_data_time, now>>

\* The steps of the monitoring task itself.
TaskStep ==
    \/ SessionStart
    \/ ConnectDone({"ok"})
    \/ HsIssue
    \/ HsComplete({"ok"})
    \/ EnterListening
    \/ ListenPoll
    \/ ListenSleepDone
    \/ DisconnectDone(DisconnectOuts)
    \/ SupDelayDone

\* A session that connects and may lose its link while listening, with no
\* cancellation and a healthy sink.  Frames arrive only over a link that is
\* up; time advances by the poll loop's sleeps; the event loop keeps running
\* the task (weak fairness on its steps).
NextLinkLoss ==
    \/ TaskStep
    \/ LinkLoss
    \/ (handleOpen /\ Notify(LifecycleFrames))

SpecLinkLoss == Init /\ [][NextLinkLoss]_vars /\ WF_vars(TaskStep)

\* ------------------------------------------------- functions on their own
\* f"{rand_num:06d}".encode("ascii"): the decimal digits as ASCII codes,
\* padded with "0" on the left to at least six characters.
RECURSIVE DecimalAscii(_)
DecimalAscii(n) ==
    IF n < 10 THEN <<48 + n>> ELSE DecimalAscii(n \div 10) \o <<48 + (n % 10)>>

RECURSIVE ZeroPad(_, _)
ZeroPad(str, width) ==
    IF Len(str) >= width THEN str ELSE ZeroPad(<<48>> \o str, width)

\* Mutant: the number is formatted without padding.
build_auth_key_NotPadded(rand_num) ==
    <<0, 1>> \o DecimalAscii(rand_num) \o [i \in 1..10 |-> 0]

\* build_auth_key, for the number random.randint drew.
build_auth_key(rand_num) ==
    <<0, 1>> \o ZeroPad(DecimalAscii(rand_num), 6) \o [i \in 1..10 |-> 0]

\* The write of the key in initialize_device (monitor.py:826-830).
AuthWrite(rand_num) ==
    [char |-> "UUID_KEY", data |-> build_auth_key(rand_num), response |-> TRUE]

\* The function call c evaluated: "router" is notification_handler's
\* dispatch of a frame.
Apply(c) ==
    CASE c.fn = "decode_data_frame" -> decode_data_frame(c.arg)
      [] c.fn = "decode_status_battery" -> decode_status_battery(c.arg)
      [] c.fn = "decode_meta_time_mode" -> decode_meta_time_mode(c.arg)
      [] c.fn = "router" -> RouterOut(c.arg)
      [] c.fn = "auth_write" -> AuthWrite(c.arg)

Call ==
    /\ callIn # NoCall
    /\ callOut' = [done |-> TRUE, val |-> Apply(callIn)]
    /\ UNCHANGED <<supVars, hsVars, unwindVars, cancelVars, mqttVars,
                   fatalObserved, include_history, routerVars, last_data_time,
                   now, callIn, discovered_devices>>

Byte == 0..255
EdgeBytes == {0, 1, 255}

DataBytes(year, pm25lo, pm25hi, pm1lo, pm1hi, pm10lo, pm10hi, counter, flag) ==
    <<year, 6, 15, 10, 30, 45, pm25lo, pm25hi, pm1lo, pm1hi, pm10lo, pm10hi,
      3, 4, 0, 0, 0, 0, counter, flag>>

\* Buffers of every length from 0 to n, cut from or padded onto base.
Lengths(base, n) ==
    {SubSeq(base \o [i \in 1..n |-> 170], 1, k) : k \in 0..n}

\* DATA buffers: every pm2.5 value; the extreme bytes in each measurement,
\* year, counter and flag position; every length up to maxLen.
DataInputs(maxLen) ==
    {DataBytes(25, lo, hi, 7, 0, 9, 0, 3, 1) : lo \in Byte, hi \in Byte}
    \cup {DataBytes(y, a, b, c, d, e, f, k, g) :
             y \in {0, 255}, a \in EdgeBytes, b \in EdgeBytes, c \in EdgeBytes,
             d \in EdgeBytes, e \in EdgeBytes, f \in EdgeBytes,
             k \in {0, 255}, g \in {0, 1}}
    \cup Lengths(DataFrame(5, 1, 3, 1), maxLen)

StatusInputs == {<<>>, <<42, 7>>} \cup {<<b>> : b \in Byte}

\* META buffers: every flag byte at every length up to maxLen.
MetaInputs(maxLen) ==
    UNION {Lengths(<<flag, 25, 6, 15, 10, 30, 45, 3>>, maxLen) : flag \in Byte}

\* The numbers below 10^6 whose decimal digits are all in NonceDigits.
NonceDigits == {0, 5, 9}
Nonces ==
    {((((a * 10 + b) * 10 + c) * 10 + d) * 10 + e) * 10 + f :
        a \in NonceDigits, b \in NonceDigits, c \in NonceDigits,
        d \in NonceDigits, e \in NonceDigits, f \in NonceDigits}

CallInputs(maxData, maxMeta) ==
    {[fn |-> "decode_data_frame", arg |-> b] : b \in DataInputs(maxData)}
    \cup {[fn |-> "decode_status_battery", arg |-> b] : b \in StatusInputs}
    \cup {[fn |-> "decode_meta_time_mode", arg |-> b] : b \in MetaInputs(maxMeta)}
    \cup {[fn |-> "router", arg |-> [ch |-> "META", data |-> b]] : b \in MetaInputs(maxMeta)}
    \cup {[fn |-> "router", arg |-> [ch |-> "DATA", data |-> b]] :
             b \in Lengths(DataFrame(5, 1, 3, 1), maxData)}
    \cup {[fn |-> "auth_write", arg |-> n] : n \in Nonces}

\* One function of the program, called with one argument of CallInputs,
\* buffers going up to MaxDataLen and MaxMetaLen bytes.
InitCalls ==
    /\ callIn \in CallInputs(MaxDataLen, MaxMetaLen)
    /\ callOut = NotCalled
    /\ InitWith(IF callIn.fn = "router" THEN BOOLEAN ELSE {FALSE})

NextCalls == Call

SpecCalls == InitCalls /\ [][NextCalls]_vars

\* Buffers decoded again and again while the router runs.
RedecodeInputs ==
    { [fn |-> "decode_data_frame", arg |-> DataFrame(5, 1, 3, 1)],
      [fn |-> "decode_data_frame", arg |-> SubSeq(DataFrame(5, 1, 3, 1), 1, 19)],
      [fn |-> "decode_status_battery", arg |-> <<42>>],
      [fn |-> "decode_status_battery", arg |-> <<>>],
      [fn |-> "decode_meta_time_mode", arg |-> MetaTimeFrame],
      [fn |-> "decode_meta_time_mode", arg |-> <<META_FLAG_SHORT_RESPONSE, 0>>] }

InitRedecode ==
    /\ callIn \in RedecodeInputs
    /\ callOut = NotCalled
    /\ InitWith(BOOLEAN)

\* A decoder called at any moment, any number of times, while sessions
\* come and go and the router handles frames.
NextRedecode ==
    \/ NextRouter
    \/ Call

SpecRedecode == InitRedecode /\ [][NextRedecode]_vars

\* ---------------------------------------------------------------- scanner
\* discover.py.  Strings are sequences of characters; None and "" are both
\* the empty sequence (both are false in "a or b").
SUPPORTED_DEVICES == {<<"V", "S", "O", "N", "#", "W", "P", "6", "8", "1", "0">>}
DEVICE_NAME_SEPARATOR == "#"
Unknown == <<"u", "n", "k", "n", "o", "w", "n">>

get_device_name(local_name, name) ==
    IF local_name # <<>> THEN local_name
    ELSE IF name # <<>> THEN name ELSE Unknown

startswith(str, prefix) ==
    Len(str) >= Len(prefix) /\ SubSeq(str, 1, Len(prefix)) = prefix

is_supported_device(local_name, name) ==
    LET device_name == get_device_name(local_name, name) IN
    IF device_name = <<>> \/ device_name = Unknown THEN FALSE
    ELSE \E supported_prefix \in SUPPORTED_DEVICES :
            startswith(device_name, supported_prefix)

\* str.split(sep)
RECURSIVE split(_, _)
split(str, sep) ==
    IF \A i \in 1..Len(str) : str[i] # sep THEN <<str>>
    ELSE LET i == CHOOSE k \in 1..Len(str) :
                     str[k] = sep /\ \A j \in 1..(k - 1) : str[j] # sep
         IN <<SubSeq(str, 1, i - 1)>> \o split(SubSeq(str, i + 1, Len(str)), sep)

parse_device_name(device_name) ==
    LET parts == split(device_name, DEVICE_NAME_SEPARATOR)
        padded == parts \o [i \in 1..(3 - Len(parts)) |-> Unknown]
    IN [manufacturer |-> padded[1], model |-> padded[2], serial |-> padded[3]]

\* Mutant: the dictionary is rebuilt from the advertisement just received.
detection_callback_Rebuilds(mac, local_name, name, rssi) ==
    /\ IF ~is_supported_device(local_name, name)
       THEN UNCHANGED discovered_devices
       ELSE LET device_name == get_device_name(local_name, name)
                device_info == parse_device_name(device_name)
            IN discovered_devices' =
                 [m \in {mac} |->
                    [name |-> device_name,
                     manufacturer |-> device_info.manufacturer,
                     model |-> device_info.model,
                     serial |-> device_info.serial,
                     rssi |-> rssi,
                     last_seen |-> now,
                     first_seen |-> now]]
    /\ UNCHANGED <<supVars, hsVars, unwindVars, cancelVars, mqttVars,
                   fatalObserved, include_history, routerVars, last_data_time,
                   now, callIn, callOut>>

\* detection_callback(device, adv_data), with device.address = mac,
\* adv_data.local_name, device.name and adv_data.rssi.
detection_callback(mac, local_name, name, rssi) ==
    /\ IF ~is_supported_device(local_name, name)
       THEN UNCHANGED discovered_devices
       ELSE LET device_name == get_device_name(local_name, name)
                device_info == parse_device_name(device_name)
            IN discovered_devices' =
                 [m \in DOMAIN discovered_devices \cup {mac} |->
                    IF m = mac
                    THEN [name |-> device_name,
                          manufacturer |-> device_info.manufacturer,
                          model |-> device_info.model,
                          serial |-> device_info.serial,
                          rssi |-> rssi,
                          last_seen |-> now,
                          first_seen |->
                              IF mac \in DOMAIN discovered_devices
                              THEN discovered_devices[mac].first_seen ELSE now]
                    ELSE discovered_devices[m]]
    /\ UNCHANGED <<supVars, hsVars, unwindVars, cancelVars, mqttVars,
                   fatalObserved, include_history, routerVars, last_data_time,
                   now, callIn, callOut>>

\* scan_loop's await asyncio.sleep(1) returns.
ScanSleepDone ==
    /\ now < MaxTime
    /\ now' = now + 1
    /\ UNCHANGED <<supVars, hsVars, unwindVars, cancelVars, mqttVars,
                   fatalObserved, staticVars, routerVars, last_data_time>>

SupportedPrefix == CHOOSE p \in SUPPORTED_DEVICES : TRUE

\* Advertisements: two addresses; names that are missing, "unknown", the
\* prefix with and without a serial, one character short of the prefix, the
\* prefix after another character, and a longer model number.
Macs == {"AA:01", "BB:02"}
AdvNames ==
    { <<>>, Unknown,
      SupportedPrefix \o <<"#", "7">>,
      SupportedPrefix,
      SubSeq(SupportedPrefix, 1, Len(SupportedPrefix) - 1),
      <<"x">> \o SupportedPrefix,
      SupportedPrefix \o <<"0", "#", "7">> }
DevNames == {<<>>, SupportedPrefix \o <<"#", "8">>, <<"T", "V">>}
Rssis == {-45, -85}

Advertisement ==
    \E mac \in Macs, local_name \in AdvNames, name \in DevNames, rssi \in Rssis :
        detection_callback(mac, local_name, name, rssi)

InitScan == InitWith({FALSE}) /\ NoCallPending

NextScan ==
    \/ Advertisement
    \/ ScanSleepDone

SpecScan == InitScan /\ [][NextScan]_vars

\* ------------------------------------------------------------------ claims
AllSteps == {HsSteps[i] : i \in 1..Len(HsSteps)}
Issued == {hsIssued[i] : i \in 1..Len(hsIssued)}
Retryable == {"return"} \cup TransportErrors
CancelStep == cancels' = cancels + 1

Rank(st) ==
    CASE st = "Idle" -> 0 [] st = "Connecting" -> 1 [] st = "Initializing" -> 2
      [] st = "Listening" -> 3 [] st = "Closing" -> 4 [] st = "Closed" -> 5

C2_CancelNeverRetried ==
    cancelledIn = "Listening" => pc \notin {"sup_call", "connect"}

\* C3: every step that leaves Listening enters Closing with disconnect
\* called, and a session whose link is up hands control back to
\* monitor_device only from the disconnect call.
C3_DisconnectOnEveryExit ==
    [][ /\ (sessState = "Listening" /\ sessState' # "Listening")
           => (sessState' = "Closing" /\ pc' = "disconnect" /\ discAttempted')
        /\ (sessState # "Closed" /\ sessState' = "Closed" /\ handleOpen)
           => (pc = "disconnect" /\ discAttempted)
        /\ (sessState' = "Closed" /\ handleOpen') => discAttempted'
      ]_vars

C3_Witness ==
    /\ sessState = "Closed" /\ cancelledIn = "Listening" /\ disposition = "cancel"
    /\ discAttempted /\ discResult = "Bleak"

\* C4: once a check has seen mqtt_fatal_error set, the flag stays set, no
\* step starts a connection, and the next call of monitor_device_connection
\* ends the process instead of connecting.
C4_NoConnectAfterFatalObserved ==
    [][ /\ fatalObserved => (mqtt_fatal_error /\ mqtt_fatal_error')
        /\ fatalObserved => ~(pc # "connect" /\ pc' = "connect")
        /\ (pc = "sup_call" /\ pc' # pc /\ mqtt_fatal_error)
           => (pc' = "terminated" /\ outcome' = "SystemExit" /\ fatalObserved')
        /\ (fatalObserved /\ pc' # pc)
           => pc' \in {"disconnect", "sup_delay", "sup_call", "terminated"}
      ]_vars

C4_Witness ==
    /\ fatalObserved /\ prevDisposition = "sinkfatal"
    /\ pc = "terminated" /\ outcome = "SystemExit"

C6_BatteryPerConnection ==
    sessState \in {"Initializing", "Listening"}
        => latest_battery = (IF sessStatus = None THEN InitialBattery ELSE sessStatus)

\* C7 (as claimed): a 20-byte DATA frame is emitted exactly when its byte 19
\* is 1 or history is included.
C7_HistoricalFilter ==
    (lastIn.ch = "DATA" /\ Len(lastIn.data) = PACKET_SIZE_DATA)
        => ((lastOut.kind = "reading") <=> (lastIn.data[20] = 1 \/ include_history))

\* C8: the authentication write is issued only after the four subscriptions
\* have returned, the start command only after the authentication write has
\* returned, the time-sync write only after the start command has returned,
\* and at most one handshake write is in flight.
C8_HandshakeStrictOrder ==
    /\ "write_auth" \in Issued => HsSubs \subseteq hsConfirmed
    /\ "write_start" \in Issued => "write_auth" \in hsConfirmed
    /\ "write_time" \in Issued => "write_start" \in hsConfirmed
    /\ Cardinality(inflight \cap HsWrites) <= 1
    /\ Cardinality(inflight) <= 1
    /\ hsConfirmed \subseteq Issued

C8_Witness == inflight = {"write_time"} /\ pc = "hs_wait"

C10_LifecycleForwardOnly ==
    [][ /\ (sessions' = sessions)
           => /\ Rank(sessState') >= Rank(sessState)
              /\ (sessState = "Closed" => sessState' = "Closed")
              /\ (sessState' = "Connecting" /\ sessState' # sessState)
                 => sessState = "Idle"
              /\ (sessState' = "Initializing" /\ sessState' # sessState)
                 => (sessState = "Connecting" /\ handleOpen')
              /\ (sessState' = "Listening" /\ sessState' # sessState)
                 => (/\ sessState = "Initializing" /\ hsConfirmed = AllSteps
                     /\ inflight = {} /\ hsFailed = {})
              /\ (sessState' = "Closing" /\ sessState' # sessState)
                 => sessState \in {"Connecting", "Initializing", "Listening"}
        /\ (sessions' # sessions) => (sessState = "Closed" /\ sessState' = "Idle")
      ]_vars

C10_Witness ==
    /\ sessState = "Closed" /\ hsConfirmed = AllSteps /\ disposition = "silence"
    /\ sessions = 2

\* A step in which the router handled a frame other than a repeat of the
\* previous one.
FrameStep == lastIn' # lastIn \/ lastOut' # lastOut

\* C11: a session leaves Listening as a silence timeout only at a poll that
\* finds the liveness clock more than response_timeout old; a poll that finds
\* it at most response_timeout old (and the fatal flag clear) goes on to the
\* sleep; and the clock a Listening session polls is the time it entered
\* Listening or the time the router last handled a frame, whichever is later.
C11_SilenceOnlyBeyondThreshold ==
    [][ /\ (sessState = "Listening" /\ sessState' # sessState /\ disposition' = "silence")
           => (pc = "listen_poll" /\ now - last_data_time > ResponseTimeout)
        /\ (/\ pc = "listen_poll" /\ pc' # pc /\ ~mqtt_fatal_error
            /\ now - last_data_time <= ResponseTimeout)
           => (pc' = "listen_sleep" /\ sessState' = "Listening")
        /\ (sessState # "Listening" /\ sessState' = "Listening")
           => last_data_time' = now
        /\ (sessState = "Listening" /\ last_data_time' # last_data_time)
           => (last_data_time' = now /\ pc = "listen_sleep" /\ lastIn' \in RouterFrames)
        /\ (sessState = "Listening" /\ FrameStep) => last_data_time' = now
      ]_vars

C11_Witness ==
    /\ sessState = "Listening" /\ pc = "listen_sleep"
    /\ now - last_data_time = ResponseTimeout /\ now = MaxTime
    /\ lastOut.kind = "invalid"

\* C12: every frame the router handles, on any channel and whether or not it
\* decodes, sets the liveness clock to the current time.
C12_ClockUpdatedOnEveryFrame ==
    [][ FrameStep => (/\ last_data_time' = now
                      /\ lastIn' \in RouterFrames
                      /\ lastOut'.kind \in {"invalid", "skipped", "reading", "battery",
                                            "time_confirmed", "short_response", "ignored"})
      ]_vars

C12_Witness ==
    /\ lastIn = [ch |-> "META", data |-> <<9, 0>>] /\ lastOut.kind = "invalid"
    /\ last_data_time = now /\ now = MaxTime /\ sessState = "Listening"

C14_FatalNoRetryDelay ==
    disposition = "sinkfatal" => pc # "sup_delay"

\* C15 (as claimed): a session that ended by silence timeout and whose
\* disconnect call raised still reaches monitor_device as a return.
C15_DisconnectErrorNotPropagated ==
    (/\ disposition = "silence" /\ sessState = "Closed"
     /\ discResult \in TransportErrors /\ cancels = 0)
        => outcome = "return"

\* C16: a cancellation delivered in a retry delay ends the loop with
\* CancelledError and no session is created afterwards.
C16_CancelInDelayTerminates ==
    [][ /\ (pc = "sup_delay" /\ CancelStep)
           => (/\ pc' = "terminated" /\ outcome' = "Cancelled"
               /\ sessions' = sessions /\ cancelledIn' = "Delay")
        /\ (cancelledIn = "Delay" /\ cancels = MaxCancels)
           => (pc = "terminated" /\ pc' = "terminated" /\ sessions' = sessions)
      ]_vars

C16_Witness ==
    /\ cancelledIn = "Delay" /\ pc = "terminated" /\ outcome = "Cancelled"
    /\ disposition = "hsfail" /\ discResult = "ok" /\ sessions = 1

C18_ReadingCarriesLatestStatus ==
    [][ /\ (FrameStep /\ lastOut'.kind = "reading" /\ sessStatus # None)
           => (lastOut'.battery = sessStatus /\ sessStatus' = sessStatus)
        /\ (FrameStep /\ lastIn'.ch = "STATUS" /\ Len(lastIn'.data) >= 1)
           => (/\ sessStatus' = lastIn'.data[1]
               /\ latest_battery' = lastIn'.data[1]
               /\ lastOut'.kind = "battery")
      ]_vars

C18_Witness ==
    /\ lastOut.kind = "reading" /\ lastOut.battery = 87 /\ sessStatus = 87
    /\ sessState = "Listening" /\ sessions = 1

\* C19: the battery value changes only in a step in which the router
\* handles a STATUS frame of at least one byte, and then to that frame's
\* byte 0; every other frame and every step of the task leave it unchanged.
C19_BatteryOnlyByStatus ==
    [][ /\ (latest_battery' # latest_battery)
           => (/\ lastIn'.ch = "STATUS" /\ Len(lastIn'.data) >= 1
               /\ latest_battery' = lastIn'.data[1]
               /\ pc' = pc)
        /\ (FrameStep /\ ~(lastIn'.ch = "STATUS" /\ Len(lastIn'.data) >= 1))
           => latest_battery' = latest_battery
      ]_vars

C19_Witness ==
    /\ latest_battery = 42 /\ lastIn = [ch |-> "STATUS", data |-> <<>>]
    /\ lastOut.kind = "invalid" /\ sessStatus = 42

\* The frames the decoders reject, stated from the frame layouts: a DATA
\* buffer that is not 20 bytes, an empty STATUS, and a META that is empty,
\* has a flag other than 1 or 2, or has the wrong length for its flag.
Malformed(f) ==
    \/ f.ch = "DATA" /\ Len(f.data) # 20
    \/ f.ch = "STATUS" /\ Len(f.data) = 0
    \/ /\ f.ch = "META"
       /\ \/ Len(f.data) = 0
          \/ f.data[1] \notin {1, 2}
          \/ f.data[1] = 1 /\ Len(f.data) # 8
          \/ f.data[1] = 2 /\ Len(f.data) # 2

\* C20: a malformed frame is dropped by the router: nothing is emitted, the
\* task's position, the session's state and subscriptions and the battery
\* value are unchanged; a well-formed frame is never dropped as invalid; and
\* a record that follows a malformed frame is emitted as usual.
C20_DecodeFailureNotFatal ==
    [][ /\ (FrameStep /\ Malformed(lastIn'))
           => (/\ lastOut'.kind = "invalid"
               /\ pc' = pc /\ sessState' = sessState /\ sessions' = sessions
               /\ exc' = exc /\ disposition' = disposition /\ outcome' = outcome
               /\ hsConfirmed' = hsConfirmed /\ handleOpen' = handleOpen
               /\ latest_battery' = latest_battery
               /\ mqtt_fatal_error' = mqtt_fatal_error)
        /\ (FrameStep /\ ~Malformed(lastIn')) => lastOut'.kind # "invalid"
        /\ (/\ lastOut.kind = "invalid" /\ FrameStep /\ lastIn'.ch = "DATA"
            /\ ~Malformed(lastIn') /\ (lastIn'.data[20] # 0 \/ include_history))
           => (lastOut'.kind = "reading" /\ lastOut'.battery = latest_battery)
      ]_vars

C20_Witness ==
    /\ lastIn = [ch |-> "META", data |-> SubSeq(MetaTimeFrame, 1, 7)]
    /\ lastOut.kind = "invalid" /\ sessState = "Listening" /\ pc = "listen_sleep"
    /\ latest_battery = 87

\* C21: a step in which the router handles a frame does the whole of it:
\* the clock update, the dispatch and the battery update, with the task's
\* position, the session state and the time unchanged; a step of the task
\* (a silence check among them) handles no frame; and the clock never moves
\* without the task unless a frame has been handled completely.
C21_FrameHandledAtomically ==
    [][ /\ FrameStep
           => (/\ pc' = pc /\ sessState' = sessState /\ now' = now
               /\ last_data_time' = now
               /\ lastOut' = RouterOut(lastIn')
               /\ (lastOut'.kind = "battery" => latest_battery' = lastOut'.battery)
               /\ (lastOut'.kind # "battery" => latest_battery' = latest_battery))
        /\ (pc' # pc)
           => (lastIn' = lastIn /\ lastOut' = lastOut /\ latest_battery' = latest_battery)
        /\ (last_data_time' # last_data_time /\ pc' = pc)
           => (lastIn' \in RouterFrames /\ lastOut' = RouterOut(lastIn'))
      ]_vars

C21_Witness ==
    /\ pc = "listen_poll" /\ sessState = "Listening"
    /\ lastOut.kind = "battery" /\ latest_battery = 87 /\ lastOut.battery = 87
    /\ last_data_time = now - 1

\* C22: the liveness clock, once set, is never unset and never decreases;
\* it changes only to the current time; entering Listening sets it to the
\* current time, whatever a previous session left in it; and it is never
\* ahead of the wall clock, which does not decrease.
C22_ClockMonotonic ==
    [][ /\ (last_data_time # None)
           => (last_data_time' # None /\ last_data_time' >= last_data_time)
        /\ (last_data_time' # last_data_time) => last_data_time' = now
        /\ (sessState # "Listening" /\ sessState' = "Listening")
           => (last_data_time' = now /\ pc' = "listen_poll")
        /\ now' >= now
        /\ last_data_time' <= now'
      ]_vars

C22_Witness ==
    /\ sessions = 2 /\ prevDisposition = "silence"
    /\ sessState = "Listening" /\ pc = "listen_poll"
    /\ last_data_time = now /\ now = MaxTime

\* C30 (as claimed): while the first session is still in its handshake no
\* reading has been emitted and the battery value has not been written.
C30_NoTelemetryBeforeHandshake ==
    (sessions = 1 /\ sessState = "Initializing")
        => (lastOut.kind # "reading" /\ latest_battery = InitialBattery)

\* The call under evaluation has returned and was a call of fn.
Returned(fn) == callOut.done /\ callIn.fn = fn

\* C23: decode_data_frame returns None for a buffer whose length is not 20
\* and a full record for one whose length is 20, and the router drops a
\* DATA frame whose length is not 20 whether or not history is included.
C23_WrongLengthRejected ==
    /\ Returned("decode_data_frame")
          => ((callOut.val = DecodeNone) <=> (Len(callIn.arg) # 20))
    /\ (Returned("router") /\ callIn.arg.ch = "DATA" /\ Len(callIn.arg.data) # 20)
          => callOut.val = [kind |-> "invalid"]

C23_Witness ==
    /\ Returned("decode_data_frame") /\ Len(callIn.arg) = 21
    /\ callOut.val = DecodeNone

\* C24: for a 20-byte buffer the decoded pm25, pm1 and pm10 are the
\* little-endian 16-bit values at offsets 6, 8 and 10, within 0..65535, the
\* counter is byte 18, and the header is bytes 0..5 with year 2000 + byte 0.
C24_FieldsLittleEndian ==
    (Returned("decode_data_frame") /\ Len(callIn.arg) = 20)
        => LET b == callIn.arg
               r == callOut.val
           IN /\ r.pm25 = b[7] + 256 * b[8]
              /\ r.pm1 = b[9] + 256 * b[10]
              /\ r.pm10 = b[11] + 256 * b[12]
              /\ {r.pm25, r.pm1, r.pm10} \subseteq 0..65535
              /\ r.counter = b[19]
              /\ r.header = [year_offset |-> b[1], year_2000 |-> 2000 + b[1],
                             month |-> b[2], day |-> b[3], hour |-> b[4],
                             minute |-> b[5], second |-> b[6]]

C24_Witness ==
    /\ Returned("decode_data_frame") /\ Len(callIn.arg) = 20
    /\ callOut.val.pm25 = 65535 /\ callOut.val.pm1 = 256 /\ callOut.val.pm10 = 255
    /\ callOut.val.counter = 255 /\ callOut.val.header.year_2000 = 2255

\* C25: the router accepts a META frame exactly when its first byte is 1
\* and its length 8, or its first byte is 2 and its length 2; only the
\* former yields the time confirmation, with year 2000 + byte 1, month to
\* second from bytes 2..6 and mode from byte 7.
C25_MetaAcceptance ==
    (Returned("router") /\ callIn.arg.ch = "META")
        => LET b == callIn.arg.data
               r == callOut.val
               long == Len(b) = 8 /\ b[1] = 1
               short == Len(b) = 2 /\ b[1] = 2
           IN /\ (r # [kind |-> "invalid"]) <=> (long \/ short)
              /\ (r.kind = "time_confirmed") <=> long
              /\ (r.kind = "short_response") <=> short
              /\ long => /\ r.time.year = 2000 + b[2] /\ r.time.month = b[3]
                          /\ r.time.day = b[4] /\ r.time.hour = b[5]
                          /\ r.time.minute = b[6] /\ r.time.second = b[7]
                          /\ r.time.mode = b[8]

C25_Witness ==
    /\ Returned("router") /\ callIn.arg.ch = "META"
    /\ callIn.arg.data = <<2, 25, 6>> /\ callOut.val.kind = "invalid"

\* C26: for every pm2.5 value, with msb its high byte and lsb its low byte,
\* particles is msb * 256 + lsb * 22.0625 exactly (lsb * 6250 * 3.53 / 1000,
\* nothing lost in the division), whatever the other bytes of the buffer;
\* pm2.5 = 0x0105 gives 366.3125.
C26_ParticleFormula ==
    (Returned("decode_data_frame") /\ Len(callIn.arg) = 20)
        => LET pm == callIn.arg[7] + 256 * callIn.arg[8]
               msb == pm \div 256
               lsb == pm % 256
               r == callOut.val
           IN /\ r.particles_msb = msb /\ r.particles_lsb = lsb
              /\ r.particles_e4 = msb * 2560000 + lsb * 220625
              /\ (pm = 261 => r.particles_e4 = 3663125)

C26_Witness ==
    /\ Returned("decode_data_frame") /\ Len(callIn.arg) = 20
    /\ callIn.arg[7] = 255 /\ callIn.arg[8] = 255 /\ callIn.arg[9] = 7
    /\ callOut.val.particles_e4 = 255 * 2560000 + 255 * 220625

\* The number a sequence of ASCII digits denotes.
RECURSIVE DigitsValue(_)
DigitsValue(d) ==
    IF Len(d) = 0 THEN 0
    ELSE 10 * DigitsValue(SubSeq(d, 1, Len(d) - 1)) + (d[Len(d)] - 48)

\* C27: the key packet is 18 bytes: 00 01, six ASCII digits that denote the
\* number drawn, ten zero bytes; and it is written with a response
\* requested.
C27_AuthPacketLayout ==
    Returned("auth_write")
        => LET k == callOut.val.data IN
           /\ Len(k) = 18
           /\ k[1] = 0 /\ k[2] = 1
           /\ \A i \in 3..8 : k[i] \in 48..57
           /\ DigitsValue(SubSeq(k, 3, 8)) = callIn.arg
           /\ \A i \in 9..18 : k[i] = 0
           /\ callOut.val.response
           /\ callOut.val.char = "UUID_KEY"

C27_Witness ==
    /\ Returned("auth_write") /\ callIn.arg = 59
    /\ callOut.val.data = <<0, 1, 48, 48, 48, 48, 53, 57, 0, 0, 0, 0, 0, 0, 0, 0, 0, 0>>

C29_DiscoveredDevicesKept ==
    [][ /\ DOMAIN discovered_devices \subseteq DOMAIN discovered_devices'
        /\ \A m \in DOMAIN discovered_devices' :
              LET n == discovered_devices'[m].name IN
              /\ Len(n) >= 11
              /\ SubSeq(n, 1, 11) = <<"V", "S", "O", "N", "#", "W", "P", "6", "8", "1", "0">>
      ]_vars

C29_Witness ==
    /\ DOMAIN discovered_devices = Macs
    /\ discovered_devices["AA:01"].first_seen = 0
    /\ discovered_devices["AA:01"].last_seen = MaxTime
    /\ discovered_devices["BB:02"].first_seen = 1
    /\ discovered_devices["BB:02"].serial = <<"8">>

\* A session ends and hands an exception outside the handled classes to
\* monitor_device.
EndsUnhandled ==
    sessState # "Closed" /\ sessState' = "Closed" /\ outcome' = "Other"

\* C31: the task enters a retry delay only with a return or a handled
\* exception in hand; a session that ends with any other exception ends the
\* loop at once, and after that nothing is started; disconnect has been
\* called for that session when the exception arose after the connection
\* was opened (in the handshake, in the poll loop or in disconnect itself),
\* and has not been called when connect itself raised.
C31_UnhandledExceptionEndsLoop ==
    [][ /\ (pc' = "sup_delay" /\ pc # "sup_delay") => outcome' \in Retryable
        /\ EndsUnhandled => (pc' = "terminated" /\ sessions' = sessions)
        /\ (pc = "terminated")
              => (pc' = "terminated" /\ sessions' = sessions /\ outcome' = outcome)
        /\ (EndsUnhandled /\ pc = "disconnect")
              => (discAttempted' /\ discResult' \in {"ok", "Other"})
        /\ (EndsUnhandled /\ pc # "disconnect")
              => (pc = "connect" /\ ~discAttempted' /\ ~handleOpen')
      ]_vars

C31_Witness ==
    /\ pc = "terminated" /\ outcome = "Other" /\ sessions = 1
    /\ disposition = "silence" /\ discAttempted /\ discResult = "Other"

\* C31 (as claimed): disconnect has been called for every session that ended
\* with an exception outside the handled classes, one raised by connect
\* included.
C31_DisconnectAttemptedOnAnyUnhandled ==
    (pc = "terminated" /\ outcome = "Other") => discAttempted

\* C32: mqtt_fatal_error is set by a step that counts one more failure and
\* brings mqtt_connection_failed_count to mqtt_max_connection_attempts, and
\* by no other; the count moves only up by one or back to 0, so that while
\* the flag is clear it is below the threshold; and no step clears the flag,
\* a step that resets the count to 0 included.
C32_FatalFlagLatched ==
    [][ /\ mqtt_fatal_error => mqtt_fatal_error'
        /\ (~mqtt_fatal_error /\ mqtt_fatal_error')
              => /\ mqtt_connection_failed_count' = mqtt_connection_failed_count + 1
                 /\ mqtt_connection_failed_count' = MqttMaxConnectionAttempts
        /\ (mqtt_connection_failed_count' # mqtt_connection_failed_count)
              => \/ mqtt_connection_failed_count' = mqtt_connection_failed_count + 1
                 \/ mqtt_connection_failed_count' = 0 /\ mqtt_fatal_error' = mqtt_fatal_error
        /\ ~mqtt_fatal_error'
              => mqtt_connection_failed_count' < MqttMaxConnectionAttempts
        /\ (mqtt_connection_failed_count' >= MqttMaxConnectionAttempts)
              => mqtt_fatal_error'
      ]_vars

C32_Witness ==
    /\ mqtt_fatal_error /\ mqtt_connection_failed_count = 0
    /\ ~fatalObserved /\ pc = "listen_sleep"
====
